---- MODULE Spec2Model ----
(***************************************************************************)
(* Model of the agent execution bridge, ClaudeCodeExecutor, of             *)
(* src/src/ssai/claude_code_executor.py.                                   *)
(*                                                                         *)
(* execute() and cancel() are coroutines on one asyncio loop: the code     *)
(* between two awaits runs atomically, and every await (an enqueue_event,  *)
(* the async-for's fetch of the next engine message) is a point where      *)
(* another coroutine may run.  One action of the model is one such atomic  *)
(* stretch of code, ending with the enqueue it awaits.                     *)
(*                                                                         *)
(* Spec is that state machine.  SpecUnit applies the operations of the     *)
(* session registry and _build_options one by one, and SpecSolver is the   *)
(* retry loop and the scorer of src/eval/agent/starsim.py.                 *)
(***************************************************************************)
EXTENDS Integers, Sequences, FiniteSets, TLC

(* ------------------------------ bounds -------------------------------- *)
\* execute() calls in one run of the model
NumExecs == 2
\* engine messages delivered in one run of the model, over all query() streams
MaxMsgs == 2
\* cancel() calls in one run of the model
MaxCancels == 2
\* names in config.mcp_servers
MaxMcp == 2
\* largest max_retries a solver is built with
MaxRetries == 3
\* largest number of test cases of a sample
MaxTests == 2

(* ------------------------------ values -------------------------------- *)
Execs == 1..NumExecs
Tasks == {"t1", "t2"}
\* context.task_id is None (or ""): both are falsy in `if task_id` / `task_id or ""`
NoTask == "None"
None == "None"
SessionIds == {"s1", "s2"}
NL == "\n"

\* Text is a sequence of characters; the fixed texts are one-token sequences.
WorkingNotice == <<"Claude Code is working on your request">>
Advisory == <<"I didn't receive any input. Could you send a message?">>
DoneSentinel == <<"Done.">>
NoText == <<>>

RECURSIVE Join(_, _)
\* sep.join(parts) of Python
Join(sep, parts) ==
    IF parts = <<>> THEN <<>>
    ELSE IF Len(parts) = 1 THEN parts[1]
    ELSE parts[1] \o sep \o Join(sep, Tail(parts))

(* --------------------------- inbound message -------------------------- *)
TextPart(txt) == [type |-> "text", text |-> txt]
FilePart == [type |-> "file", text |-> <<>>]
DataPart == [type |-> "data", text |-> <<>>]

RECURSIVE PartTexts(_)
\* the list `parts` built by the loop of extract_user_text
PartTexts(ps) ==
    IF ps = <<>> THEN <<>>
    ELSE LET p == Head(ps)
             here == IF p.type = "text" THEN <<p.text>>
                     ELSE IF p.type = "file" THEN << <<"[Attached file: uploaded_file]">> >>
                     ELSE <<>>
         IN here \o PartTexts(Tail(ps))

extract_user_text(ps) == Join(<<NL>>, PartTexts(ps))

\* message parts of the requests the model sends; NoInput marks a call not yet made
NoInput == <<DataPart, DataPart>>
Inputs == { <<>>,
            <<TextPart(<<>>)>>,
            <<DataPart>>,
            <<TextPart(<<"q">>), FilePart>> }

(* ------------------------------ events -------------------------------- *)
TaskIdOrEmpty(t) == IF t = NoTask THEN "" ELSE t

new_agent_text_message(txt, fin) ==
    [kind |-> "message", taskId |-> "", state |-> "none", text |-> txt,
     final |-> fin, lastChunk |-> FALSE]

\* faulty variant: no status event is marked final
TaskStatusUpdateEventNeverFinal(t, st, txt, fin) ==
    [kind |-> "status", taskId |-> TaskIdOrEmpty(t), state |-> st, text |-> txt,
     final |-> FALSE, lastChunk |-> FALSE]

TaskStatusUpdateEvent(t, st, txt, fin) ==
    [kind |-> "status", taskId |-> TaskIdOrEmpty(t), state |-> st, text |-> txt,
     final |-> fin, lastChunk |-> FALSE]

TaskArtifactUpdateEvent(t, txt) ==
    [kind |-> "artifact", taskId |-> TaskIdOrEmpty(t), state |-> "none", text |-> txt,
     final |-> FALSE, lastChunk |-> TRUE]

(* --------------------------- engine stream ---------------------------- *)
TextBlock(txt) == [type |-> "text", text |-> txt, name |-> "", input |-> "none"]
ToolUseBlock(nm, inp) == [type |-> "tool_use", text |-> <<>>, name |-> nm, input |-> inp]
ToolResultBlock == [type |-> "tool_result", text |-> <<>>, name |-> "", input |-> "none"]

AssistantMessage(blocks) == [type |-> "assistant", content |-> blocks, session_id |-> None]
ResultMessage(sid) == [type |-> "result", content |-> <<>>, session_id |-> sid]
SystemMessage == [type |-> "system", content |-> <<>>, session_id |-> None]

\* the messages an engine stream may deliver, in any order
EngineMsgs ==
    { AssistantMessage(<<TextBlock(<<>>), TextBlock(<<"a">>), ToolResultBlock,
                         ToolUseBlock("Bash", "dict"), TextBlock(<<"b">>),
                         ToolUseBlock("Read", "list")>>),
      ResultMessage("s1"),
      ResultMessage("s2"),
      ResultMessage(None),
      SystemMessage }

\* exceptions
EngineErrors == {"engine error"}
WorkspaceErrors == {"OSError"}
NoExc == "no exception"


(* ------------------------------- state -------------------------------- *)
VARIABLES
    pc,             \* where each execute() call stands (see the actions)
    input,          \* context.message.parts of each call
    task,           \* task_id of each call (context.task_id)
    workspace,      \* the local `workspace` of each call
    cancel_flag,    \* is_set() of the asyncio.Event each call created
    opts,           \* the ClaudeAgentOptions each call passed to query()
    collected_text, \* the local list collected_text
    session_id,     \* the local session_id
    rest,           \* blocks of the current assistant message not yet visited
    consumed,       \* engine messages each call has taken from its stream
    exc,            \* the exception each call caught, or that left execute()
    events,         \* what each execute() call enqueued on its event queue
    sessions,       \* self.sessions._sessions
    cancel_events,  \* self._cancel_events: task id -> the call whose Event it holds
    dirs,           \* directories that exist under workspace_root
    cancels,        \* the cancel() calls made so far, each with what it enqueued (and,
                    \* as history, whether its task id was unknown, running or ended)
    observed,       \* history: text of every TextBlock each call visited, in order
    signaledAt,     \* history: Len(events) of a call when its Event was first set
    lastDone,       \* history: session id captured by the latest completed run of a task
    overlapped,     \* history: task ids of which two executions were in flight at once
    delivered,      \* history: the engine messages each call was handed, in order
    unit,           \* the registry and options operations applied on their own
    solver          \* one sample of the evaluation solver and scorer

vars == <<pc, input, task, workspace, cancel_flag, opts, collected_text, session_id,
          rest, consumed, exc, events, sessions, cancel_events, dirs, cancels,
          observed, signaledAt, lastDone, overlapped, delivered, unit, solver>>

\* the registry and options operations, and the solver, before anything was applied
UnitIdle == [op |-> "none", key |-> NoTask, arg |-> None, out |-> None, mcp |-> <<>>,
             was |-> None, last |-> [t \in Tasks |-> None]]
SolverIdle == [pc |-> "idle", max_retries |-> 0, total |-> 0, attempt |-> 0, sent |-> 0,
               outcomes |-> <<>>, response_text |-> <<>>, incomplete_reason |-> <<>>,
               exc |-> NoExc, score |-> [value |-> 0, tests_passed |-> 0, tests_total |-> 0,
                                         incomplete |-> FALSE], ran |-> FALSE]

NoOpts == [resume |-> None, continue_conversation |-> FALSE, invoked |-> FALSE]
NoDir == [task |-> NoTask, uuid |-> 0]

Init ==
    /\ pc = [e \in Execs |-> "idle"]
    /\ input = [e \in Execs |-> NoInput]
    /\ task = [e \in Execs |-> NoTask]
    /\ workspace = [e \in Execs |-> NoDir]
    /\ cancel_flag = [e \in Execs |-> FALSE]
    /\ opts = [e \in Execs |-> NoOpts]
    /\ collected_text = [e \in Execs |-> <<>>]
    /\ session_id = [e \in Execs |-> None]
    /\ rest = [e \in Execs |-> <<>>]
    /\ consumed = [e \in Execs |-> 0]
    /\ exc = [e \in Execs |-> NoExc]
    /\ events = [e \in Execs |-> <<>>]
    /\ sessions = [t \in Tasks |-> None]
    /\ cancel_events = [t \in Tasks |-> 0]
    /\ dirs = {}
    /\ cancels = <<>>
    /\ observed = [e \in Execs |-> <<>>]
    /\ signaledAt = [e \in Execs |-> -1]
    /\ lastDone = [t \in Tasks |-> None]
    /\ overlapped = {}
    /\ delivered = [e \in Execs |-> <<>>]
    /\ unit = UnitIdle
    /\ solver = SolverIdle

(* ------------------------ SessionTracker ------------------------------ *)
\* SessionTracker.get: dict.get, None for a key that is not there
SessionGet(t) == IF t \in Tasks THEN sessions[t] ELSE None
\* faulty variant: set() keeps the value a task id already has
SessionSetIfAbsent(t, sid) == IF sessions[t] = None THEN [sessions EXCEPT ![t] = sid]
                                                    ELSE sessions

\* SessionTracker.set
SessionSet(t, sid) == [sessions EXCEPT ![t] = sid]
\* SessionTracker.remove: dict.pop(task_id, None), nothing happens for a key not there
SessionRemove(t) == IF t \in Tasks THEN [sessions EXCEPT ![t] = None] ELSE sessions

(* ------------------------ workspace ----------------------------------- *)
\* faulty variant: every call gets a folder of its own, with a task id or without
FolderForPerCall(e, t) == [task |-> t, uuid |-> e]

\* folder_name = task_id or str(uuid4()): a fresh name for each call without a task id
FolderFor(e, t) == IF t = NoTask THEN [task |-> NoTask, uuid |-> e]
                                 ELSE [task |-> t, uuid |-> 0]

(* ------------------------ _build_options ------------------------------ *)
\* faulty variant: the options never resume a session
BuildOptionsFresh(t) == [resume |-> None, continue_conversation |-> FALSE, invoked |-> TRUE]

\* the resume part of _build_options: only for a truthy task id with a truthy session id
BuildOptions(t) ==
    LET sid == IF t # NoTask THEN SessionGet(t) ELSE None
    IN IF sid # None
       THEN [resume |-> sid, continue_conversation |-> TRUE, invoked |-> TRUE]
       ELSE [resume |-> None, continue_conversation |-> FALSE, invoked |-> TRUE]

\* MCP_REGISTRY, by its keys
MCP_REGISTRY == {"secret"}
\* names a configuration may ask for: the registered one and one that is not registered
McpNames == MCP_REGISTRY \cup {"bogus"}
\* config.mcp_servers: a list, a name may be given more than once
McpLists == UNION {[1..n -> McpNames] : n \in 0..MaxMcp}
\* config.allowed_tools when none are given
BaseTools == <<"Read", "Write", "Edit", "MultiEdit", "Bash", "Glob", "Grep", "WebSearch">>
\* f"mcp__{name}__*"
McpTool(name) == "mcp__" \o name \o "__*"

RECURSIVE McpKnownAll(_)
\* faulty variant: names that are not registered are taken as well
McpKnownAll(cfg) == IF cfg = <<>> THEN <<>> ELSE <<Head(cfg)>> \o McpKnownAll(Tail(cfg))

RECURSIVE McpKnown(_)
\* the loop of lines 245-250: the names that are not `continue`d, in order
McpKnown(cfg) ==
    IF cfg = <<>> THEN <<>>
    ELSE (IF Head(cfg) \notin MCP_REGISTRY THEN <<>> ELSE <<Head(cfg)>>) \o McpKnown(Tail(cfg))

\* the MCP part of _build_options; mcp_servers = {} is the field left at its default
McpOptions(cfg) ==
    LET known == McpKnown(cfg)
        mcp_configs == {known[i] : i \in DOMAIN known}
        mcp_tools == [i \in DOMAIN known |-> McpTool(known[i])]
    IN IF cfg # <<>> /\ mcp_configs # {}
       THEN [mcp_servers |-> mcp_configs, allowed_tools |-> BaseTools \o mcp_tools]
       ELSE [mcp_servers |-> {}, allowed_tools |-> BaseTools]

(* ------------------------ the message loop ---------------------------- *)
\* faulty variant: tool invocations are passed over in silence
EmitsTextOnly(b) == b.type = "text" /\ b.text # <<>>

\* a block for which the loop body enqueues an event
Emits(b) == \/ b.type = "text" /\ b.text # <<>>
            \/ b.type = "tool_use"

RECURSIVE SkipSilent(_)
\* the blocks left once the leading blocks that enqueue nothing are passed
SkipSilent(bs) ==
    IF bs = <<>> THEN <<>>
    ELSE IF Emits(Head(bs)) THEN bs
    ELSE SkipSilent(Tail(bs))

RECURSIVE SilentTexts(_)
\* the TextBlock texts among the leading blocks that enqueue nothing (all empty)
SilentTexts(bs) ==
    IF bs = <<>> \/ Emits(Head(bs)) THEN <<>>
    ELSE (IF Head(bs).type = "text" THEN <<Head(bs).text>> ELSE <<>>)
         \o SilentTexts(Tail(bs))

\* json.dumps(tool_input, default=str) for a dict, str(tool_input) for another value
\* that is not None, "" for None (lines 356-361)
InputSummary(inp) ==
    IF inp = "dict" THEN <<"{\"command\": \"ls\"}">>
    ELSE IF inp = "list" THEN <<"['a.py']">>
    ELSE <<>>

\* faulty variant: the event text carries the input summary after the tool's name
BlockEventWithInput(t, b) ==
    IF b.type = "text"
    THEN TaskStatusUpdateEvent(t, "working", b.text, FALSE)
    ELSE TaskStatusUpdateEvent(t, "working",
                               <<"Using tool: ", b.name>> \o InputSummary(b.input), FALSE)

\* the status event of one block: the text itself, or the tool's name
BlockEvent(t, b) ==
    IF b.type = "text"
    THEN TaskStatusUpdateEvent(t, "working", b.text, FALSE)
    ELSE TaskStatusUpdateEvent(t, "working", <<"Using tool: ", b.name>>, FALSE)

\* collected_text after one block
Collect(ct, b) == IF b.type = "text" /\ b.text # <<>> THEN Append(ct, b.text) ELSE ct

RECURSIVE FinalTextConcat(_)
\* faulty variant: the collected texts put one after the other, without the separator
FinalTextConcat(ct) ==
    IF ct # <<>> THEN (IF Len(ct) = 1 THEN ct[1] ELSE ct[1] \o FinalTextConcat(Tail(ct)))
    ELSE DoneSentinel

\* final_text = "\n".join(collected_text) if collected_text else "Done."
FinalText(ct) == IF ct # <<>> THEN Join(<<NL>>, ct) ELSE DoneSentinel

\* the for-loop over msg.content from block list bs on, up to and including the
\* next enqueue (an await), or to the end of the message
RunBlocks(e, bs) ==
    LET live == SkipSilent(bs)
        seen == observed[e] \o SilentTexts(bs)
    IN IF live = <<>>
       THEN /\ pc' = [pc EXCEPT ![e] = "iter"]
            /\ rest' = [rest EXCEPT ![e] = <<>>]
            /\ observed' = [observed EXCEPT ![e] = seen]
            /\ UNCHANGED <<collected_text, events>>
       ELSE LET b == Head(live)
            IN /\ collected_text' = [collected_text EXCEPT ![e] = Collect(@, b)]
               /\ events' = [events EXCEPT ![e] = Append(@, BlockEvent(task[e], b))]
               /\ observed' = [observed EXCEPT ![e] =
                                 IF b.type = "text" THEN Append(seen, b.text) ELSE seen]
               /\ rest' = [rest EXCEPT ![e] = Tail(live)]
               /\ pc' = [pc EXCEPT ![e] = IF Tail(live) = <<>> THEN "iter" ELSE "blocks"]


(* ------------------------------ execute ------------------------------- *)
\* execute() was called and has not returned (nor raised)
Running(e) == pc[e] \notin {"idle", "done", "raised"}
\* execute() has returned, or an exception has left it
Returned(e) == pc[e] \in {"done", "raised"}
\* the calls of task id t in flight
InFlight(t) == {e \in Execs : task[e] = t /\ Running(e)}
\* the calls of task id t that have ended
Ended(t) == {e \in Execs : task[e] = t /\ Returned(e)}

\* the slots are taken in order: which call is 1 and which is 2 is only a name
MayStart(e) == pc[e] = "idle" /\ \A d \in Execs : d < e => pc[d] # "idle"

\* mkdir(parents=True, exist_ok=True) succeeds whether or not the directory exists
WorkspaceForTask(e, t) ==
    /\ workspace' = [workspace EXCEPT ![e] = FolderFor(e, t)]
    /\ dirs' = dirs \cup {FolderFor(e, t)}

\* faulty variant: the flag is kept per task id and comes up set when a cancel() of the
\* task id was made before
RegisterCancelEventStale(e, t) ==
    /\ cancel_flag' = [cancel_flag EXCEPT ![e] = \E i \in 1..Len(cancels) : cancels[i].task = t]
    /\ cancel_events' = IF t # NoTask THEN [cancel_events EXCEPT ![t] = e]
                                      ELSE cancel_events

\* cancel_event = asyncio.Event(); if task_id: self._cancel_events[task_id] = cancel_event
RegisterCancelEvent(e, t) ==
    /\ cancel_flag' = [cancel_flag EXCEPT ![e] = FALSE]
    /\ cancel_events' = IF t # NoTask THEN [cancel_events EXCEPT ![t] = e]
                                      ELSE cancel_events

\* faulty variant: the handle is left in the map when execute() ends
PopCancelEventNever(t) == cancel_events

\* finally: if task_id: self._cancel_events.pop(task_id, None)
PopCancelEvent(t) == IF t # NoTask THEN [cancel_events EXCEPT ![t] = 0] ELSE cancel_events

\* faulty variant: the session id of the run is not written to the registry
StoreSessionNever(t, sid) == sessions

\* if task_id and session_id: self.sessions.set(task_id, session_id)
StoreSession(t, sid) == IF t # NoTask /\ sid # None THEN SessionSet(t, sid) ELSE sessions

\* where task id t stands: no call yet, a call in flight, or all its calls ended
Phase(t) == IF InFlight(t) # {} THEN "running"
            ELSE IF Ended(t) # {} THEN "ended" ELSE "unknown"

\* faulty variant: only a message without parts counts as empty
IsEmptyInputNoParts(inp) == PartTexts(inp) = <<>>

\* `if not user_text` of line 273
IsEmptyInput(inp) == extract_user_text(inp) = <<>>

\* execute() on a message without text: one advisory message, then return
ExecuteEmpty(e) ==
    /\ MayStart(e)
    /\ \E inp \in Inputs, t \in Tasks \cup {NoTask} :
        /\ IsEmptyInput(inp)
        /\ input' = [input EXCEPT ![e] = inp]
        /\ task' = [task EXCEPT ![e] = t]
        /\ events' = [events EXCEPT ![e] = Append(@, new_agent_text_message(Advisory, TRUE))]
        /\ pc' = [pc EXCEPT ![e] = "done"]
    /\ UNCHANGED <<workspace, cancel_flag, opts, collected_text, session_id, rest, consumed,
                   exc, sessions, cancel_events, dirs, cancels, observed, signaledAt,
                   lastDone, overlapped,
                   delivered, unit, solver>>

\* execute() from its entry to the await of the first enqueue (lines 272-312)
ExecuteStart(e) ==
    /\ MayStart(e)
    /\ \E inp \in Inputs, t \in Tasks \cup {NoTask} :
        /\ ~IsEmptyInput(inp)
        /\ input' = [input EXCEPT ![e] = inp]
        /\ task' = [task EXCEPT ![e] = t]
        /\ WorkspaceForTask(e, t)
        /\ RegisterCancelEvent(e, t)
        /\ events' = [events EXCEPT ![e] =
                        Append(@, TaskStatusUpdateEvent(t, "working", WorkingNotice, FALSE))]
        /\ pc' = [pc EXCEPT ![e] = "build"]
        /\ overlapped' = IF t # NoTask /\ InFlight(t) # {} THEN overlapped \cup {t}
                                                          ELSE overlapped
    /\ UNCHANGED <<opts, collected_text, session_id, rest, consumed, exc, sessions,
                   cancels, observed, signaledAt, lastDone,
                   delivered, unit, solver>>

\* the same stretch when ws.mkdir raises: line 281 stands before the try of line 318,
\* so the exception leaves execute()
ExecuteWorkspaceFails(e) ==
    /\ MayStart(e)
    /\ \E inp \in Inputs, t \in Tasks \cup {NoTask}, x \in WorkspaceErrors :
        /\ ~IsEmptyInput(inp)
        /\ input' = [input EXCEPT ![e] = inp]
        /\ task' = [task EXCEPT ![e] = t]
        /\ exc' = [exc EXCEPT ![e] = x]
        /\ pc' = [pc EXCEPT ![e] = "raised"]
    /\ UNCHANGED <<workspace, cancel_flag, opts, collected_text, session_id, rest, consumed,
                   events, sessions, cancel_events, dirs, cancels, observed, signaledAt,
                   lastDone, overlapped,
                   delivered, unit, solver>>

\* lines 314-319: build the options, start query() and wait for its first message
Build(e) ==
    /\ pc[e] = "build"
    /\ opts' = [opts EXCEPT ![e] = BuildOptions(task[e])]
    /\ collected_text' = [collected_text EXCEPT ![e] = <<>>]
    /\ session_id' = [session_id EXCEPT ![e] = None]
    /\ pc' = [pc EXCEPT ![e] = "iter"]
    /\ UNCHANGED <<input, task, workspace, cancel_flag, rest, consumed, exc, events,
                   sessions, cancel_events, dirs, cancels, observed, signaledAt, lastDone, overlapped,
                   delivered, unit, solver>>

RECURSIVE SumTo(_, _)
SumTo(f, n) == IF n = 0 THEN 0 ELSE f[n] + SumTo(f, n - 1)
\* engine messages delivered so far, over all streams
Delivered == SumTo(consumed, NumExecs)

\* faulty variant: the session id of a result message is passed on to the caller
OnResultMessageEmits(e, m) ==
    /\ session_id' = [session_id EXCEPT ![e] = m.session_id]
    /\ events' = [events EXCEPT ![e] =
                    Append(@, TaskStatusUpdateEvent(task[e], "working", <<m.session_id>>, FALSE))]
    /\ UNCHANGED <<pc, collected_text, rest, observed>>

\* faulty variant: a session id once captured is not replaced by a later result message
OnResultMessageKeepsFirst(e, m) ==
    /\ session_id' = [session_id EXCEPT ![e] = IF @ = None THEN m.session_id ELSE @]
    /\ UNCHANGED <<pc, collected_text, rest, events, observed>>

\* elif isinstance(msg, ResultMessage): session_id = getattr(msg, "session_id", None)
OnResultMessage(e, m) ==
    /\ session_id' = [session_id EXCEPT ![e] = m.session_id]
    /\ UNCHANGED <<pc, collected_text, rest, events, observed>>

\* else: the message is logged only
OnOtherMessage(e, m) == UNCHANGED <<pc, collected_text, session_id, rest, events, observed>>

\* faulty variant: the flag is looked at after the session id of the message is taken
OnCancelObservedLate(e, m) ==
    /\ events' = [events EXCEPT ![e] =
                    Append(@, TaskStatusUpdateEvent(task[e], "canceled", NoText, TRUE))]
    /\ pc' = [pc EXCEPT ![e] = "finally"]
    /\ session_id' = [session_id EXCEPT ![e] = IF m.type = "result" THEN m.session_id ELSE @]
    /\ UNCHANGED <<collected_text, rest, observed>>

\* if cancel_event.is_set(): the canceled status is enqueued and execute() returns;
\* the message m just fetched is not looked at (lines 321-331)
OnCancelObserved(e, m) ==
    /\ events' = [events EXCEPT ![e] =
                    Append(@, TaskStatusUpdateEvent(task[e], "canceled", NoText, TRUE))]
    /\ pc' = [pc EXCEPT ![e] = "finally"]
    /\ UNCHANGED <<collected_text, session_id, rest, observed>>

\* the engine delivers message m: one pass of the loop body up to its first await
EngineYield(e) ==
    /\ pc[e] = "iter"
    /\ Delivered < MaxMsgs
    /\ \E m \in EngineMsgs :
        /\ consumed' = [consumed EXCEPT ![e] = @ + 1]
        /\ delivered' = [delivered EXCEPT ![e] = Append(@, m)]
        /\ IF cancel_flag[e]
           THEN OnCancelObserved(e, m)
           ELSE IF m.type = "assistant"
           THEN /\ RunBlocks(e, m.content)
                /\ UNCHANGED session_id
           ELSE IF m.type = "result"
           THEN OnResultMessage(e, m)
           ELSE OnOtherMessage(e, m)
    /\ UNCHANGED <<input, task, workspace, cancel_flag, opts, exc, sessions, cancel_events,
                   dirs, cancels, signaledAt, lastDone, overlapped,
                   unit, solver>>

\* back from the await of a block's enqueue: the rest of the message's blocks
Resume(e) ==
    /\ pc[e] = "blocks"
    /\ RunBlocks(e, rest[e])
    /\ UNCHANGED <<input, task, workspace, cancel_flag, opts, session_id, consumed, exc,
                   sessions, cancel_events, dirs, cancels, signaledAt, lastDone, overlapped,
                   delivered, unit, solver>>

\* faulty variant: no except branch, the exception leaves execute()
EngineRaisePropagates(e) ==
    /\ pc[e] = "iter"
    /\ \E x \in EngineErrors : exc' = [exc EXCEPT ![e] = x]
    /\ pc' = [pc EXCEPT ![e] = "raised"]
    /\ cancel_events' = IF task[e] # NoTask THEN [cancel_events EXCEPT ![task[e]] = 0]
                                            ELSE cancel_events
    /\ UNCHANGED <<input, task, workspace, cancel_flag, opts, collected_text, session_id,
                   rest, consumed, events, sessions, dirs, cancels, observed,
                   signaledAt, lastDone, overlapped,
                   delivered, unit, solver>>

\* faulty variant: the except branch enqueues the text collected so far as an artifact first
EngineRaiseWithArtifact(e) ==
    /\ pc[e] = "iter"
    /\ \E x \in EngineErrors :
        /\ exc' = [exc EXCEPT ![e] = x]
        /\ events' = [events EXCEPT ![e] =
                        @ \o <<TaskArtifactUpdateEvent(task[e], Join(<<NL>>, collected_text[e])),
                               TaskStatusUpdateEvent(task[e], "failed",
                                                     <<"Execution error: ", x>>, TRUE)>>]
    /\ pc' = [pc EXCEPT ![e] = "finally"]
    /\ UNCHANGED <<input, task, workspace, cancel_flag, opts, collected_text, session_id,
                   rest, consumed, sessions, cancel_events, dirs, cancels, observed,
                   signaledAt, lastDone, overlapped,
                   delivered, unit, solver>>

\* the stream raises: the except branch up to the await of its enqueue (lines 392-408)
EngineRaise(e) ==
    /\ pc[e] = "iter"
    /\ \E x \in EngineErrors :
        /\ exc' = [exc EXCEPT ![e] = x]
        /\ events' = [events EXCEPT ![e] =
                        Append(@, TaskStatusUpdateEvent(task[e], "failed",
                                                        <<"Execution error: ", x>>, TRUE))]
    /\ pc' = [pc EXCEPT ![e] = "finally"]
    /\ UNCHANGED <<input, task, workspace, cancel_flag, opts, collected_text, session_id,
                   rest, consumed, sessions, cancel_events, dirs, cancels, observed,
                   signaledAt, lastDone, overlapped,
                   delivered, unit, solver>>

\* faulty variant: the canceled and failed branches store the captured session id too
FinallyStores(e) ==
    /\ pc[e] = "finally"
    /\ cancel_events' = PopCancelEvent(task[e])
    /\ sessions' = StoreSession(task[e], session_id[e])
    /\ pc' = [pc EXCEPT ![e] = "done"]
    /\ UNCHANGED <<input, task, workspace, cancel_flag, opts, collected_text, session_id,
                   rest, consumed, exc, events, dirs, cancels, observed,
                   signaledAt, lastDone, overlapped,
                   delivered, unit, solver>>

\* the return of the canceled and failed branches runs the finally block (lines 410-412)
Finally(e) ==
    /\ pc[e] = "finally"
    /\ cancel_events' = PopCancelEvent(task[e])
    /\ pc' = [pc EXCEPT ![e] = "done"]
    /\ UNCHANGED <<input, task, workspace, cancel_flag, opts, collected_text, session_id,
                   rest, consumed, exc, events, sessions, dirs, cancels, observed,
                   signaledAt, lastDone, overlapped,
                   delivered, unit, solver>>

\* the stream ends: finally, the session is stored, the artifact is enqueued (410-432)
EngineEnd(e) ==
    /\ pc[e] = "iter"
    /\ cancel_events' = PopCancelEvent(task[e])
    /\ sessions' = StoreSession(task[e], session_id[e])
    /\ events' = [events EXCEPT ![e] =
                    Append(@, TaskArtifactUpdateEvent(task[e], FinalText(collected_text[e])))]
    /\ pc' = [pc EXCEPT ![e] = "artifact"]
    /\ UNCHANGED <<input, task, workspace, cancel_flag, opts, collected_text, session_id,
                   rest, consumed, exc, dirs, cancels, observed, signaledAt, lastDone, overlapped,
                   delivered, unit, solver>>

\* lines 434-452: the completed status, then execute() returns
Complete(e) ==
    /\ pc[e] = "artifact"
    /\ events' = [events EXCEPT ![e] =
                    Append(@, TaskStatusUpdateEvent(task[e], "completed", NoText, TRUE))]
    /\ pc' = [pc EXCEPT ![e] = "done"]
    /\ lastDone' = IF task[e] # NoTask /\ session_id[e] # None
                   THEN [lastDone EXCEPT ![task[e]] = session_id[e]]
                   ELSE lastDone
    /\ UNCHANGED <<input, task, workspace, cancel_flag, opts, collected_text, session_id,
                   rest, consumed, exc, sessions, cancel_events, dirs, cancels, observed,
                   signaledAt, overlapped,
                   delivered, unit, solver>>

(* ------------------------------- cancel ------------------------------- *)
\* faulty variant: one handle for all task ids, the tracked Event of any task id is taken
TrackedEventAnyTask(t) ==
    IF t \in Tasks /\ cancel_events[t] # 0 THEN cancel_events[t]
    ELSE IF \E t2 \in Tasks : cancel_events[t2] # 0
         THEN cancel_events[CHOOSE t2 \in Tasks : cancel_events[t2] # 0]
         ELSE 0

\* faulty variant: cancel() without a task id reaches an execution without a task id
TrackedEventOfAbsent(t) ==
    IF t \in Tasks THEN cancel_events[t]
    ELSE IF InFlight(NoTask) # {} THEN CHOOSE e \in InFlight(NoTask) : TRUE
    ELSE 0

\* self._cancel_events.get(task_id or ""): the call whose Event is tracked, 0 for none
TrackedEvent(t) == IF t \in Tasks THEN cancel_events[t] ELSE 0

\* faulty variant: cancel() of a task id that is not tracked enqueues nothing
CancelEnqueuesNothing(t) == <<>>

\* what cancel() enqueues on its own queue
CancelEnqueues(t) ==
    IF TrackedEvent(t) # 0 THEN <<>>
    ELSE <<TaskStatusUpdateEvent(t, "canceled", NoText, TRUE)>>

\* cancel() for task id t
Cancel(t) ==
    /\ Len(cancels) < MaxCancels
    /\ cancels' = Append(cancels, [task |-> t, events |-> CancelEnqueues(t),
                                    phase |-> Phase(t)])
    /\ LET o == TrackedEvent(t)
       IN IF o # 0
          THEN /\ cancel_flag' = [cancel_flag EXCEPT ![o] = TRUE]
               /\ signaledAt' = [signaledAt EXCEPT ![o] =
                                   IF @ = -1 THEN Len(events[o]) ELSE @]
          ELSE UNCHANGED <<cancel_flag, signaledAt>>
    /\ UNCHANGED <<pc, input, task, workspace, opts, collected_text, session_id, rest,
                   consumed, exc, events, sessions, cancel_events, dirs, observed, lastDone, overlapped,
                   delivered, unit, solver>>

(* ---------------------------- specification --------------------------- *)
Next ==
    \/ \E e \in Execs : ExecuteEmpty(e)
    \/ \E e \in Execs : ExecuteStart(e)
    \/ \E e \in Execs : ExecuteWorkspaceFails(e)
    \/ \E e \in Execs : Build(e)
    \/ \E e \in Execs : EngineYield(e)
    \/ \E e \in Execs : Resume(e)
    \/ \E e \in Execs : EngineRaise(e)
    \/ \E e \in Execs : EngineEnd(e)
    \/ \E e \in Execs : Finally(e)
    \/ \E e \in Execs : Complete(e)
    \/ \E t \in Tasks \cup {NoTask} : Cancel(t)

Spec == Init /\ [][Next]_vars


(* ------------------------- reading the event log ---------------------- *)
TerminalStates == {"completed", "failed", "canceled"}
IsTerminal(ev) == ev.kind = "status" /\ ev.state \in TerminalStates /\ ev.final
IsProgress(ev) == ev.kind = "status" /\ ev.state = "working" /\ ~ev.final
IsArtifact(ev) == ev.kind = "artifact"

Terminals(e) == {i \in 1..Len(events[e]) : IsTerminal(events[e][i])}
Artifacts(e) == {i \in 1..Len(events[e]) : IsArtifact(events[e][i])}
LastState(e) == IF events[e] # <<>> /\ events[e][Len(events[e])].kind = "status"
                THEN events[e][Len(events[e])].state ELSE "none"

\* execute() was called with a message that has text
NonEmptyCall(e) == pc[e] # "idle" /\ extract_user_text(input[e]) # <<>>
EmptyCall(e) == pc[e] # "idle" /\ extract_user_text(input[e]) = <<>>

RECURSIVE Concat(_)
\* the texts of a list, one after the other with nothing in between
Concat(parts) == IF parts = <<>> THEN <<>> ELSE Head(parts) \o Concat(Tail(parts))

RECURSIVE NonEmptyOf(_)
NonEmptyOf(parts) ==
    IF parts = <<>> THEN <<>>
    ELSE (IF Head(parts) # <<>> THEN <<Head(parts)>> ELSE <<>>) \o NonEmptyOf(Tail(parts))

(* ------------------------------- C1 ----------------------------------- *)
\* C1: every execute() call on non-empty input that has ended enqueued exactly one
\* terminal status event, and in no execution does an event follow a terminal one.
C1_OneTerminalLast ==
    \A e \in Execs :
        NonEmptyCall(e) =>
            /\ \A i \in Terminals(e) : i = Len(events[e])
            /\ Returned(e) => Cardinality(Terminals(e)) = 1

(* ------------------------------- C2 ----------------------------------- *)
\* C2 as stated: a completed execution has exactly one artifact event, right before
\* the completed status, whose text is the observed fragments one after the other
\* (the sentinel when no fragment was observed).
C2_ArtifactIsConcatenation ==
    \A e \in Execs :
        LastState(e) = "completed" =>
            /\ Artifacts(e) = {Len(events[e]) - 1}
            /\ events[e][Len(events[e]) - 1].text =
                   IF observed[e] = <<>> THEN DoneSentinel ELSE Concat(observed[e])

\* C2 as amended: a completed execution has exactly one artifact event, right before
\* the completed status, whose text is the non-empty observed fragments in arrival
\* order with a newline between consecutive ones (the sentinel when there is none).
C2_ArtifactIsJoinedText ==
    \A e \in Execs :
        LastState(e) = "completed" =>
            /\ Artifacts(e) = {Len(events[e]) - 1}
            /\ Terminals(e) = {Len(events[e])}
            /\ events[e][Len(events[e]) - 1].text =
                   IF NonEmptyOf(observed[e]) = <<>> THEN DoneSentinel
                   ELSE Join(<<NL>>, NonEmptyOf(observed[e]))

\* a completed execution that observed an empty fragment and two non-empty ones
C2_Witness ==
    \E e \in Execs :
        /\ LastState(e) = "completed"
        /\ Len(NonEmptyOf(observed[e])) >= 2
        /\ Len(observed[e]) > Len(NonEmptyOf(observed[e]))

(* ------------------------------- C3 ----------------------------------- *)
\* the call's Event was set while it had enqueued no terminal event
SignaledWhileActive(e) ==
    /\ signaledAt[e] >= 0
    /\ \A i \in Terminals(e) : i > signaledAt[e]

\* C3: an execution signaled while active ends canceled, and every event it enqueues
\* after the signal is terminal.
C3_SignalEndsCanceled ==
    \A e \in Execs :
        SignaledWhileActive(e) =>
            /\ \A i \in 1..Len(events[e]) : i > signaledAt[e] => IsTerminal(events[e][i])
            /\ Returned(e) => LastState(e) = "canceled"

(* ------------------------------- C4 ----------------------------------- *)
IsCancelStep == Len(cancels') = Len(cancels) + 1
NewCancel == cancels'[Len(cancels')]

\* C4: a cancel(t) step taken while no execution of t is in flight enqueues exactly one
\* terminal canceled status and changes neither the cancellation map nor the registry.
C4_CancelWithoutExecution ==
    [][ (IsCancelStep /\ NewCancel.task \in Tasks /\ InFlight(NewCancel.task) = {}) =>
            /\ NewCancel.events =
                   <<[kind |-> "status", taskId |-> NewCancel.task, state |-> "canceled",
                      text |-> NoText, final |-> TRUE, lastChunk |-> FALSE]>>
            /\ cancel_events' = cancel_events
            /\ sessions' = sessions
            /\ cancel_flag' = cancel_flag ]_vars

\* cancel(t) was called after an execution of t had ended, and one before any began
C4_Witness ==
    \E i, j \in 1..Len(cancels) :
        /\ cancels[i].task \in Tasks
        /\ cancels[i].phase = "ended"
        /\ cancels[i].events # <<>>
        /\ cancels[j].phase = "unknown"
        /\ cancels[j].task \in Tasks


(* ------------------------------- C5 ----------------------------------- *)
\* the step of call e that builds its options and starts query()
IsBuildStep(e) == pc[e] = "build" /\ pc'[e] = "iter"
\* no two executions of task id t have been in flight at once (the callers serialize)
Serialized(t) == t \notin overlapped

\* C5: when execute() builds its options, a task id whose latest completed execution
\* reported session id s gets resume = s and continue_conversation = TRUE (executions of
\* one task id being serialized); a task id without registry entry, and an absent task
\* id, get no resume and no continuation flag.
C5_ResumeAfterCompletion ==
    [][ \A e \in Execs :
          IsBuildStep(e) =>
              /\ (task[e] = NoTask \/ SessionGet(task[e]) = None) =>
                     /\ opts'[e].resume = None
                     /\ ~opts'[e].continue_conversation
              /\ (task[e] # NoTask /\ Serialized(task[e])) =>
                     /\ opts'[e].resume = lastDone[task[e]]
                     /\ opts'[e].continue_conversation = (lastDone[task[e]] # None) ]_vars

\* a second execution of a task id started query() with the session id of the first
C5_Witness ==
    \E e, d \in Execs :
        /\ e # d /\ task[e] = task[d] /\ task[e] \in Tasks
        /\ LastState(d) = "completed" /\ session_id[d] \in SessionIds
        /\ opts[e].invoked /\ opts[e].resume = session_id[d]
        /\ opts[e].continue_conversation
        /\ Serialized(task[e])

(* ------------------------------- C6 ----------------------------------- *)
\* call e took the step
Stepped(e) == \/ pc'[e] # pc[e]
              \/ events'[e] # events[e]
              \/ consumed'[e] # consumed[e]
              \/ rest'[e] # rest[e]

\* C6: a step of an execution of task id t changes neither the cancellation handle nor
\* the session mapping of another task id; cancel(t) sets no flag of an execution of
\* another task id; and an execution ends canceled only after a cancel() of its own id.
C6_TaskIsolation ==
    /\ [][ /\ \A e \in Execs : Stepped(e) =>
                 \A t2 \in Tasks \ {task'[e]} :
                     /\ cancel_events'[t2] = cancel_events[t2]
                     /\ sessions'[t2] = sessions[t2]
           /\ IsCancelStep =>
                 \A e \in Execs : task[e] # NewCancel.task =>
                     cancel_flag'[e] = cancel_flag[e] ]_vars
    /\ [](\A e \in Execs : LastState(e) = "canceled" =>
              \E i \in 1..Len(cancels) : cancels[i].task = task[e])

\* two executions of distinct task ids in flight, one signaled and the other not, the
\* other's handle still registered
C6_Witness ==
    \E e, d \in Execs :
        /\ task[e] \in Tasks /\ task[d] \in Tasks /\ task[e] # task[d]
        /\ Running(e) /\ Running(d)
        /\ cancel_flag[e] /\ ~cancel_flag[d]
        /\ cancel_events[task[d]] = d
        /\ session_id[e] # None

(* ------------------------------- C7 ----------------------------------- *)
\* C7: execute() on a message without text enqueues the advisory message and nothing
\* else, does not start the engine, resolves no workspace, registers no cancellation
\* handle, and leaves the directories, the cancellation map and the registry as they were.
C7_EmptyInputOnlyAdvises ==
    /\ [](\A e \in Execs : EmptyCall(e) =>
              /\ pc[e] = "done"
              /\ events[e] = <<[kind |-> "message", taskId |-> "", state |-> "none",
                                text |-> Advisory, final |-> TRUE, lastChunk |-> FALSE]>>
              /\ ~opts[e].invoked
              /\ consumed[e] = 0
              /\ workspace[e] = NoDir
              /\ \A t \in Tasks : cancel_events[t] # e)
    /\ [][ \A e \in Execs :
             (pc[e] = "idle" /\ pc'[e] # "idle" /\ extract_user_text(input'[e]) = <<>>) =>
                 /\ dirs' = dirs
                 /\ sessions' = sessions
                 /\ cancel_events' = cancel_events ]_vars

\* execute() has returned on a message whose only part is an empty text, with a task id
C7_Witness ==
    \E e \in Execs :
        /\ pc[e] = "done"
        /\ input[e] = <<TextPart(<<>>)>>
        /\ task[e] \in Tasks
        /\ Len(events[e]) = 1

(* ------------------------------- C8 ----------------------------------- *)
\* C8: once the engine stream has raised, the execution has enqueued exactly one
\* terminal event, the failed status carrying the exception's message, as its last
\* event and no artifact; it takes no further engine message; nothing leaves execute().
C8_EngineFaultFails ==
    /\ [](\A e \in Execs : exc[e] \in EngineErrors =>
              /\ pc[e] \in {"finally", "done"}
              /\ Terminals(e) = {Len(events[e])}
              /\ events[e][Len(events[e])].state = "failed"
              /\ events[e][Len(events[e])].text = <<"Execution error: ", exc[e]>>
              /\ Artifacts(e) = {})
    /\ [][ \A e \in Execs : exc[e] \in EngineErrors =>
              /\ consumed'[e] = consumed[e]
              /\ events'[e] = events[e] ]_vars

\* the stream raised after a message had been taken, and execute() has returned
C8_Witness ==
    \E e \in Execs :
        /\ exc[e] \in EngineErrors
        /\ consumed[e] >= 1
        /\ pc[e] = "done"

(* ------------------------------- C9 ----------------------------------- *)
\* C9: no fault leaves execute() on non-empty input: every fault raised in it shows as
\* a terminal failed status event.
C9_NoFaultLeavesExecute ==
    \A e \in Execs :
        NonEmptyCall(e) =>
            /\ pc[e] # "raised"
            /\ exc[e] # NoExc => LastState(e) = "failed"

(* ------------------------------- C10 ---------------------------------- *)
\* C10 as stated, for each terminal state: an execution that has enqueued its terminal
\* status enqueued before it non-final status events and then exactly one artifact event.
C10_ArtifactBeforeEveryTerminal ==
    \A e \in Execs :
        Terminals(e) # {} =>
            LET n == Len(events[e])
            IN /\ Terminals(e) = {n}
               /\ Artifacts(e) = {n - 1}
               /\ events[e][n - 1].lastChunk
               /\ \A i \in 1..(n - 2) : IsProgress(events[e][i])

\* C10 as amended: the events of an execution on non-empty input are non-final working
\* status events, then, only when it completes, exactly one artifact event with
\* lastChunk = TRUE, then one terminal status; a failed or canceled execution has no
\* artifact event, and an execution that a fault left has no event at all.
C10_ShapeByTerminalState ==
    \A e \in Execs :
        NonEmptyCall(e) =>
            LET n == Len(events[e])
            IN /\ \A i \in 1..n :
                     \/ IsProgress(events[e][i])
                     \/ IsArtifact(events[e][i]) /\ events[e][i].lastChunk /\ i >= n - 1
                     \/ IsTerminal(events[e][i]) /\ i = n
               /\ LastState(e) = "completed" => Artifacts(e) = {n - 1}
               /\ LastState(e) \in {"failed", "canceled"} => Artifacts(e) = {}
               /\ Artifacts(e) = {n} => pc[e] = "artifact"
               /\ pc[e] = "done" => Terminals(e) = {n}
               /\ pc[e] = "raised" => n = 0

\* one execution ended canceled after progress events, another ended completed
C10_Witness ==
    \E e, d \in Execs :
        /\ pc[e] = "done" /\ LastState(e) = "canceled" /\ Len(events[e]) >= 3
        /\ pc[d] = "done" /\ LastState(d) = "completed"

(* ------------------------------- C11 ---------------------------------- *)
\* C11: the cancellation map holds a handle for a task id only while an execution of
\* that task id is in flight, and the handle is that of such an execution; an execution
\* whose task id no other execution shared while it ran has its handle in the map
\* from its start until its finally block; so once the executions of a task id have
\* all ended, on whichever terminal path, the map has no entry for it.
C11_HandleOnlyInFlight ==
    /\ \A t \in Tasks : cancel_events[t] # 0 => cancel_events[t] \in InFlight(t)
    /\ \A e \in Execs :
          (task[e] \in Tasks /\ task[e] \notin overlapped
             /\ pc[e] \in {"build", "iter", "blocks", "finally"})
          => cancel_events[task[e]] = e

\* all executions carried a task id and have returned, one canceled or failed and one
\* completed, and the map is empty
C11_Witness ==
    /\ \A e \in Execs : pc[e] = "done" /\ task[e] \in Tasks /\ NonEmptyCall(e)
    /\ \E e, d \in Execs : LastState(e) \in {"canceled", "failed"} /\ LastState(d) = "completed"
    /\ \A t \in Tasks : cancel_events[t] = 0

(* ------------- the registry and the options, operation by operation --- *)
\* everything execute() and cancel() work on, but the registry
execVars == <<pc, input, task, workspace, cancel_flag, opts, collected_text, session_id,
              rest, consumed, exc, events, cancel_events, dirs, cancels,
              observed, signaledAt, lastDone, overlapped, delivered>>

\* SessionTracker.set(t, s)
RegSet(t, s) ==
    /\ sessions' = SessionSet(t, s)
    /\ unit' = [unit EXCEPT !.op = "set", !.was = SessionGet(t), !.key = t, !.arg = s, !.out = None,
                            !.last = [@ EXCEPT ![t] = s]]
    /\ UNCHANGED <<execVars, solver>>

\* SessionTracker.get(t)
RegGet(t) ==
    /\ unit' = [unit EXCEPT !.op = "get", !.was = SessionGet(t), !.key = t, !.arg = None, !.out = SessionGet(t)]
    /\ UNCHANGED <<execVars, sessions, solver>>

\* SessionTracker.remove(t)
RegRemove(t) ==
    /\ sessions' = SessionRemove(t)
    /\ unit' = [unit EXCEPT !.op = "remove", !.was = SessionGet(t), !.key = t, !.arg = None, !.out = None,
                            !.last = [@ EXCEPT ![t] = None]]
    /\ UNCHANGED <<execVars, solver>>

\* lines 414-416 at the end of a run of task id t whose stream reported session id sid
RunStoresSession(t, sid) ==
    /\ sessions' = StoreSession(t, sid)
    /\ unit' = [unit EXCEPT !.op = "store", !.was = SessionGet(t), !.key = t, !.arg = sid, !.out = None,
                            !.last = IF t # NoTask /\ sid # None THEN [@ EXCEPT ![t] = sid]
                                                                ELSE @]
    /\ UNCHANGED <<execVars, solver>>

\* _build_options(t, workspace) of an executor configured with mcp_servers = cfg
UnitBuildOptions(cfg, t) ==
    /\ unit' = [unit EXCEPT !.op = "build", !.was = SessionGet(t), !.key = t, !.arg = None, !.mcp = cfg,
                            !.out = [mcp_servers |-> McpOptions(cfg).mcp_servers,
                                     allowed_tools |-> McpOptions(cfg).allowed_tools,
                                     resume |-> BuildOptions(t).resume,
                                     continue_conversation |->
                                         BuildOptions(t).continue_conversation]]
    /\ UNCHANGED <<execVars, sessions, solver>>

NextUnit ==
    \/ \E t \in Tasks, s \in SessionIds : RegSet(t, s)
    \/ \E t \in Tasks : RegGet(t)
    \/ \E t \in Tasks : RegRemove(t)
    \/ \E t \in Tasks \cup {NoTask}, sid \in SessionIds \cup {None} : RunStoresSession(t, sid)
    \/ \E cfg \in McpLists, t \in Tasks \cup {NoTask} : UnitBuildOptions(cfg, t)

SpecUnit == Init /\ [][NextUnit]_vars

(* ------------------------------- C12 ---------------------------------- *)
\* C12: the registry holds for each task id the session id of the latest set() or
\* stored run since the latest remove(), and nothing when there was none: get(t)
\* returns exactly that, for a task id never set as well; remove(t) leaves t absent
\* whether or not it was there; and after a run of t that reported session id s has
\* stored it, the registry maps t to s whatever it held before.
C12_RegistryLastWrite ==
    /\ \A t \in Tasks : sessions[t] = unit.last[t]
    /\ unit.op = "get" => unit.out = unit.last[unit.key]
    /\ unit.op = "set" => sessions[unit.key] = unit.arg
    /\ unit.op = "remove" => sessions[unit.key] = None
    /\ (unit.op = "store" /\ unit.key # NoTask /\ unit.arg # None)
          => sessions[unit.key] = unit.arg

\* a run has stored a session id over a different one that the registry held, while
\* the other task id is absent
C12_Witness ==
    /\ unit.op = "store" /\ unit.key = "t1" /\ unit.arg = "s2" /\ unit.was = "s1"
    /\ sessions = [t \in Tasks |-> IF t = "t1" THEN "s2" ELSE None]

(* ------------------------------- C14 ---------------------------------- *)
\* C14: _build_options does not fail on a configured name that is not registered; the
\* provider set of the options is the set of configured names that are registered;
\* the allowed-tool list is the base list followed, in the configured order, by one
\* "mcp__<name>__*" entry for every configured entry whose name is registered; and
\* when no configured name is registered the provider set is left unset and the
\* allowed-tool list is the base list.
C14_McpOptions ==
    unit.op = "build" =>
        LET cfg == unit.mcp
            o == unit.out
            known == {i \in DOMAIN cfg : cfg[i] \in MCP_REGISTRY}
            nb == Len(BaseTools)
        IN /\ o.mcp_servers = {cfg[i] : i \in known}
           /\ Len(o.allowed_tools) = nb + Cardinality(known)
           /\ SubSeq(o.allowed_tools, 1, nb) = BaseTools
           /\ \A i \in known :
                 o.allowed_tools[nb + Cardinality({k \in known : k <= i})] = McpTool(cfg[i])
           /\ known = {} => o.mcp_servers = {} /\ o.allowed_tools = BaseTools

\* options were built from a configuration that names an unregistered provider before
\* the registered one
C14_Witness ==
    /\ unit.op = "build" /\ unit.mcp = <<"bogus", "secret">>
    /\ unit.out.mcp_servers = {"secret"}
    /\ unit.out.allowed_tools = BaseTools \o <<"mcp__secret__*">>

(* ------------------------------- C13 ---------------------------------- *)
\* C13: all calls of _workspace_for_task with one task id return the same directory,
\* a call without a task id returns a directory no other call returns, and the
\* directory returned exists, whether or not it existed before the call and whether
\* or not another request of the same task id is in flight.
C13_WorkspaceIdempotent ==
    \A e \in Execs :
        workspace[e] # NoDir =>
            /\ workspace[e] \in dirs
            /\ \A d \in Execs \ {e} :
                  workspace[d] # NoDir =>
                      IF task[e] # NoTask /\ task[d] = task[e]
                      THEN workspace[d] = workspace[e]
                      ELSE workspace[d] # workspace[e]

\* two requests of one task id are in flight at once, the second having found the
\* directory of the first, and the directory is one
C13_Witness ==
    /\ \A e \in Execs : Running(e) /\ task[e] = "t1" /\ workspace[e] = FolderFor(e, "t1")
    /\ Cardinality(dirs) = 1

(* ------------------ the evaluation solver and scorer ------------------ *)
\* request_timeout of a2a_agent_solver
RequestTimeout == 600
\* how one POST of the request can end: a response whose text is extracted, a
\* httpx.TimeoutException, another httpx.HTTPError (raise_for_status included), or a
\* JSON-RPC error member, for which _extract_a2a_response raises RuntimeError
Outcomes == {"ok", "timeout", "http_error", "rpc_error"}
\* texts _extract_a2a_response returns
Answers == {<<>>, <<"code">>}

\* f"INCOMPLETE: HTTP timeout after {max_retries} attempt(s) ({request_timeout}s each)"
TimeoutReason(n) == <<"INCOMPLETE", ": HTTP timeout after ", ToString(n), " attempt(s) (",
                      ToString(RequestTimeout), "s each)">>
\* f"INCOMPLETE: HTTP error after {max_retries} attempt(s): {exc}"
HttpErrorReason(n) == <<"INCOMPLETE", ": HTTP error after ", ToString(n), " attempt(s): ",
                        "http error">>

\* faulty variant: only a timeout is caught, any other failure leaves solve()
AfterAttemptTimeoutOnly(o, attempt, max_retries) ==
    IF o = "ok" THEN [to |-> "break", reason |-> <<>>]
    ELSE IF o = "timeout"
    THEN (IF attempt < max_retries THEN [to |-> "retry", reason |-> <<>>]
          ELSE [to |-> "exhausted", reason |-> TimeoutReason(max_retries)])
    ELSE [to |-> "raise", reason |-> <<>>]

\* faulty variant: no break after a response, the loop goes on to its next attempt
AfterAttemptNoBreak(o, attempt, max_retries) ==
    IF o = "ok"
    THEN (IF attempt < max_retries THEN [to |-> "retry", reason |-> <<>>]
          ELSE [to |-> "break", reason |-> <<>>])
    ELSE IF o = "rpc_error" THEN [to |-> "raise", reason |-> <<>>]
    ELSE IF attempt < max_retries THEN [to |-> "retry", reason |-> <<>>]
    ELSE [to |-> "exhausted",
          reason |-> IF o = "timeout" THEN TimeoutReason(max_retries)
                                      ELSE HttpErrorReason(max_retries)]

\* the body of the for loop once the POST has ended with outcome o (lines 183-227):
\* where control goes, and the incomplete_reason it assigns (<<>> for none)
AfterAttempt(o, attempt, max_retries) ==
    IF o = "ok" THEN [to |-> "break", reason |-> <<>>]
    ELSE IF o = "timeout"
    THEN (IF attempt < max_retries THEN [to |-> "retry", reason |-> <<>>]
          ELSE [to |-> "exhausted", reason |-> TimeoutReason(max_retries)])
    ELSE IF o = "http_error"
    THEN (IF attempt < max_retries THEN [to |-> "retry", reason |-> <<>>]
          ELSE [to |-> "exhausted", reason |-> HttpErrorReason(max_retries)])
    ELSE [to |-> "raise", reason |-> <<>>]

\* faulty variant: the tests are run whatever the metadata says
ScoreOfTestsAlways(incomplete, passed, total) ==
    [score |-> [value |-> IF passed = total THEN 1 ELSE 0, tests_passed |-> passed,
                tests_total |-> total, incomplete |-> FALSE],
     ran |-> TRUE]

\* agent_scorer.score: `incomplete` is metadata["incomplete"], `passed` what run_tests
\* would count; ran tells whether run_tests was called
ScoreOf(incomplete, passed, total) ==
    IF incomplete # <<>>
    THEN [score |-> [value |-> 0, tests_passed |-> 0, tests_total |-> total,
                     incomplete |-> TRUE],
          ran |-> FALSE]
    ELSE [score |-> [value |-> IF passed = total THEN 1 ELSE 0, tests_passed |-> passed,
                     tests_total |-> total, incomplete |-> FALSE],
          ran |-> TRUE]

\* lines 229-245: what solve() leaves once the loop is over
Solved(sv) == [sv EXCEPT !.pc = "solved",
                         !.response_text = IF sv.incomplete_reason # <<>>
                                           THEN sv.incomplete_reason ELSE @]

\* faulty variant: the body runs once before the bound is looked at
LoopEnteredAtLeastOnce(max_retries) == TRUE

\* `for attempt in range(1, max_retries + 1)` has a first iteration
LoopEntered(max_retries) == max_retries >= 1

\* solve() from its entry to the first POST, or to its return when range() is empty
SolverStart ==
    /\ solver.pc = "idle"
    /\ \E n \in (-1)..MaxRetries, k \in 1..MaxTests :
        LET sv == [solver EXCEPT !.max_retries = n, !.total = k]
        IN solver' = IF LoopEntered(n) THEN [sv EXCEPT !.pc = "posting", !.attempt = 1, !.sent = 1]
                               ELSE Solved(sv)
    /\ UNCHANGED <<execVars, sessions, unit>>

\* the POST in flight ends: the rest of the loop body, then the next POST or the end
SolverAttempt ==
    /\ solver.pc = "posting"
    /\ \E o \in Outcomes, a \in Answers :
        LET r == AfterAttempt(o, solver.attempt, solver.max_retries)
            sv == [solver EXCEPT !.outcomes = Append(@, o),
                                 !.incomplete_reason = IF r.reason # <<>> THEN r.reason ELSE @,
                                 !.response_text = IF o = "ok" THEN a ELSE @]
        IN /\ o # "ok" => a = <<>>
           /\ solver' =
                IF r.to = "retry" THEN [sv EXCEPT !.attempt = @ + 1, !.sent = @ + 1]
                ELSE IF r.to = "raise" THEN [sv EXCEPT !.pc = "raised", !.exc = "RuntimeError"]
                ELSE Solved(sv)
    /\ UNCHANGED <<execVars, sessions, unit>>

\* the scorer on the state solve() returned
SolverScore ==
    /\ solver.pc = "solved"
    /\ \E passed \in 0..solver.total :
        LET r == ScoreOf(solver.incomplete_reason, passed, solver.total)
        IN solver' = [solver EXCEPT !.pc = "scored", !.score = r.score, !.ran = r.ran]
    /\ UNCHANGED <<execVars, sessions, unit>>

NextSolver == SolverStart \/ SolverAttempt \/ SolverScore

SpecSolver == Init /\ [][NextSolver]_vars

\* the attempts of the sample that failed with a timeout or another HTTP error
Failed(i) == solver.outcomes[i] \in {"timeout", "http_error"}

C16_IncompleteIsNotAFailingTest ==
    LET n == Len(solver.outcomes)
        allFailed == /\ solver.max_retries >= 1 /\ n = solver.max_retries
                     /\ \A i \in 1..n : Failed(i)
        succeeded == \E i \in 1..n : solver.outcomes[i] = "ok"
    IN /\ (solver.pc \in {"solved", "scored"} /\ allFailed) =>
             /\ solver.incomplete_reason # <<>>
             /\ Head(solver.incomplete_reason) = "INCOMPLETE"
       /\ (solver.pc = "scored" /\ allFailed) =>
             /\ solver.score.value = 0 /\ solver.score.tests_passed = 0
             /\ solver.score.incomplete /\ ~solver.ran
       /\ (solver.pc \in {"solved", "scored"} /\ succeeded) => solver.incomplete_reason = <<>>
       /\ (solver.pc = "scored" /\ succeeded) => solver.ran /\ ~solver.score.incomplete
       /\ solver.pc = "scored" => (solver.score.incomplete <=> ~solver.ran)

\* both of two attempts failed, one by a timeout and one by another HTTP error, and the
\* sample was scored
C16_Witness ==
    /\ solver.pc = "scored" /\ solver.max_retries = 2
    /\ solver.outcomes = <<"http_error", "timeout">>
    /\ solver.score.incomplete /\ ~solver.ran

(* ------------------------------- C17 ---------------------------------- *)
\* a run with a task id whose stream reported a session id and whose artifact event
\* is visible
StoredRun(e) == task[e] \in Tasks /\ session_id[e] # None /\ Artifacts(e) # {}

\* C17: in every state where the artifact event (and so where the completed event) of
\* a run with a task id and a session id is visible, the registry maps the task id to
\* the session id of that run.
C17_RegistryMapsVisibleRun ==
    \A e \in Execs : StoredRun(e) => sessions[task[e]] = session_id[e]

\* C17 as amended: the completed event of a run follows its artifact event directly,
\* and the session id is in the registry when the artifact event becomes visible; in
\* every state where the artifact or completed event of a run with a task id and a
\* session id is visible the registry maps the task id to that session id, provided no
\* other execution of the task id overlapped the run and no later run of the task id
\* has stored a session id of its own.
C17_StoredBeforeVisible ==
    \A e \in Execs :
        /\ LastState(e) = "completed" => Artifacts(e) = {Len(events[e]) - 1}
        /\ Artifacts(e) # {} => pc[e] \in {"artifact", "done"}
        /\ (StoredRun(e) /\ task[e] \notin overlapped
              /\ ~\E d \in Execs : d > e /\ task[d] = task[e] /\ StoredRun(d))
           => sessions[task[e]] = session_id[e]

\* the artifact event of a run is visible, its completed event is not yet, and the
\* registry, which held another session id for the task id from an earlier run,
\* maps the task id to the session id of this run
C17_Witness ==
    \E e, d \in Execs :
        /\ d < e /\ task[d] = task[e] /\ StoredRun(d) /\ pc[d] = "done"
        /\ pc[e] = "artifact" /\ StoredRun(e) /\ task[e] \notin overlapped
        /\ session_id[d] # session_id[e] /\ sessions[task[e]] = session_id[e]

(* ------------------- what the stream held, block by block ------------ *)
\* the delivered messages whose body the loop ran: a message fetched while the
\* cancellation flag was set is dropped by the check of line 321
Processed(e) ==
    IF LastState(e) = "canceled" THEN SubSeq(delivered[e], 1, Len(delivered[e]) - 1)
    ELSE delivered[e]

RECURSIVE BlocksOf(_)
\* the content blocks of the assistant messages of a list of messages, in order
BlocksOf(msgs) ==
    IF msgs = <<>> THEN <<>>
    ELSE (IF Head(msgs).type = "assistant" THEN Head(msgs).content ELSE <<>>)
         \o BlocksOf(Tail(msgs))

\* the blocks the inner loop has visited: all but those it has still before it
VisitedBlocks(e) ==
    LET all == BlocksOf(Processed(e))
    IN SubSeq(all, 1, Len(all) - Len(rest[e]))

IsFragment(b) == b.type = "text" /\ b.text # <<>>
IsToolUse(b) == b.type = "tool_use"
IsFragmentOrToolUse(b) == IsFragment(b) \/ IsToolUse(b)

\* the non-final working status events of an execution, the opening notice left out
ProgressEvents(e) == Tail(SelectSeq(events[e], IsProgress))

\* an execution that got as far as its opening notice
Opened(e) == NonEmptyCall(e) /\ pc[e] # "raised"

(* ------------------------------- C18 ---------------------------------- *)
\* C18: the progress events of an execution correspond one to one, and in stream
\* order, to the non-empty text fragments and tool invocations among the blocks it has
\* visited: the event of a fragment carries exactly the fragment, the event of a tool
\* invocation names that tool, and the accumulator holds exactly the fragments, in
\* order.
C18_ProgressInStreamOrder ==
    \A e \in Execs :
        Opened(e) =>
            LET src == SelectSeq(VisitedBlocks(e), IsFragmentOrToolUse)
                evs == ProgressEvents(e)
            IN /\ Len(evs) = Len(src)
               /\ \A i \in 1..Len(src) :
                     /\ IsFragment(src[i]) => evs[i].text = src[i].text
                     /\ IsToolUse(src[i]) => evs[i].text[Len(evs[i].text)] = src[i].name
               /\ collected_text[e] = [i \in 1..Len(SelectSeq(src, IsFragment)) |->
                                        SelectSeq(src, IsFragment)[i].text]

\* an execution completed after two messages with four progress events each
C18_Witness ==
    \E e \in Execs :
        /\ LastState(e) = "completed" /\ Len(delivered[e]) = 2
        /\ Len(ProgressEvents(e)) = 8 /\ Len(collected_text[e]) = 4

(* ------------------------------- C19 ---------------------------------- *)
\* the tool invocations an execution has visited, and the events they gave
ToolBlocks(e) == SelectSeq(VisitedBlocks(e), IsToolUse)
RECURSIVE ToolEventsOf(_, _)
ToolEventsOf(src, evs) ==
    IF src = <<>> THEN <<>>
    ELSE (IF IsToolUse(Head(src)) THEN <<Head(evs)>> ELSE <<>>)
         \o ToolEventsOf(Tail(src), Tail(evs))
ToolEvents(e) ==
    ToolEventsOf(SelectSeq(VisitedBlocks(e), IsFragmentOrToolUse), ProgressEvents(e))
\* text p occurs in text t as a run of characters
Occurs(p, t) == \E i \in 1..Len(t) : i + Len(p) - 1 <= Len(t) /\ SubSeq(t, i, i + Len(p) - 1) = p

Fetches(e) == delivered'[e] # delivered[e] /\ ~cancel_flag[e]
\* the message fetched in that step
Fetched(e) == delivered'[e][Len(delivered'[e])]

\* C20: the step that processes a result message enqueues no event on any queue,
\* leaves the accumulated text as it is and changes nothing but the captured session
\* id, which becomes that of the message; the step that processes a message that is
\* neither an assistant nor a result message changes nothing of the execution state.
C20_ResultAndOtherAreSilent ==
    [][\A e \in Execs :
          (Fetches(e) /\ Fetched(e).type # "assistant") =>
              /\ UNCHANGED <<events, collected_text, cancels>>
              /\ UNCHANGED <<pc, input, task, workspace, cancel_flag, opts, rest, exc,
                             sessions, cancel_events, dirs>>
              /\ \A d \in Execs \ {e} : session_id'[d] = session_id[d]
              /\ session_id'[e] = IF Fetched(e).type = "result" THEN Fetched(e).session_id
                                                                ELSE session_id[e]
      ]_vars

\* an execution has processed a result message and then a message of another kind, and
\* the opening notice is still its only event
C20_Witness ==
    \E e \in Execs :
        /\ pc[e] = "iter" /\ ~cancel_flag[e]
        /\ delivered[e] = <<ResultMessage("s1"), SystemMessage>>
        /\ session_id[e] = "s1" /\ Len(events[e]) = 1

(* ------------------------------- C21 ---------------------------------- *)
\* C21: an execution whose flag was set by one or more cancel() calls before it had
\* enqueued a terminal event enqueues exactly one terminal event, a canceled status,
\* as its last event; and a cancel() call that enqueued nothing was made while an
\* execution of its task id was in flight.
C21_SignaledEndsInOneCanceled ==
    /\ \A e \in Execs :
          (SignaledWhileActive(e) /\ Returned(e)) =>
              /\ Terminals(e) = {Len(events[e])}
              /\ LastState(e) = "canceled"
    /\ \A i \in 1..Len(cancels) : cancels[i].events = <<>> => cancels[i].phase = "running"

(* ------------------------------- C22 ---------------------------------- *)
\* every POST ends, with a response or with an exception (the client is built with
\* timeout = request_timeout), and a sample that solve() returned is scored
SpecSolverLive == SpecSolver /\ WF_vars(NextSolver)

\* solve() is past its retry loop: it has returned, or an exception has left it
LoopOver == solver.pc \in {"solved", "scored", "raised"}

\* C22: at most max_retries requests are sent for a sample (none at all when max_retries
\* is not positive), no request is sent after an attempt that returned a response, so a
\* response is always the last outcome, and the retry loop comes to an end.
C22_RetryLoopBounded ==
    /\ [](/\ solver.sent <= IF solver.max_retries >= 0 THEN solver.max_retries ELSE 0
          /\ Len(solver.outcomes) <= solver.sent
          /\ \A i \in 1..Len(solver.outcomes) :
                solver.outcomes[i] = "ok" => (i = solver.sent /\ LoopOver))
    /\ <>LoopOver

\* the loop ended at the second of three attempts allowed, the first to return a
\* response
C22_Witness ==
    /\ solver.pc = "solved" /\ solver.max_retries = 3
    /\ solver.outcomes = <<"timeout", "ok">> /\ solver.sent = 2

(* ------------------------------- C23 ---------------------------------- *)
\* the step in which execution e fetches a message while its flag is set
FetchesSignaled(e) == delivered'[e] # delivered[e] /\ cancel_flag[e]

\* C23: the step that fetches a message while the flag is set enqueues the terminal
\* canceled status and nothing else, and leaves the accumulated text, the captured
\* session id and the registry as they were, whatever the message holds; and an
\* execution whose last event is the canceled status fetches no further message.
C23_SignaledFetchDiscards ==
    [][\A e \in Execs :
          /\ FetchesSignaled(e) =>
                /\ events'[e] = Append(events[e],
                                       [kind |-> "status", taskId |-> TaskIdOrEmpty(task[e]),
                                        state |-> "canceled", text |-> NoText,
                                        final |-> TRUE, lastChunk |-> FALSE])
                /\ UNCHANGED <<collected_text, session_id, sessions>>
                /\ pc'[e] = "finally"
          /\ LastState(e) = "canceled" => delivered'[e] = delivered[e]
      ]_vars

\* an execution ended canceled on the fetch of its first message, an assistant message
\* with text and tool use, of which nothing shows
C23_Witness ==
    \E e \in Execs :
        /\ pc[e] = "done" /\ LastState(e) = "canceled"
        /\ Len(delivered[e]) = 1 /\ delivered[e][1].type = "assistant"
        /\ Len(events[e]) = 2 /\ collected_text[e] = <<>>

(* ------------------------------- C24 ---------------------------------- *)
\* C24: the only step of an execution that writes the registry is the one that
\* enqueues its artifact, and an execution that ends canceled or failed has never
\* taken it: from its start to its return no step of such an execution changes any
\* mapping, whatever session id its result messages carried.
C24_CanceledOrFailedWritesNothing ==
    /\ [][\A e \in Execs : (Stepped(e) /\ pc'[e] # "artifact") => sessions' = sessions]_vars
    /\ [](\A e \in Execs :
             LastState(e) \in {"canceled", "failed"} =>
                 /\ Artifacts(e) = {}
                 /\ pc[e] \in {"finally", "done"})

\* executions have all ended, canceled or failed, one after a result message that
\* carried a session id, and the registry is empty
C24_Witness ==
    /\ \A t \in Tasks : sessions[t] = None
    /\ \A e \in Execs : pc[e] = "done" /\ LastState(e) \in {"canceled", "failed"}
    /\ \E e \in Execs : task[e] \in Tasks /\ session_id[e] \in SessionIds

(* ------------------------------- C25 ---------------------------------- *)
RECURSIVE LastResultSid(_)
\* the session id of the last result message of a list of messages, None when that
\* message has none or when the list has no result message
LastResultSid(msgs) ==
    IF msgs = <<>> THEN None
    ELSE LET m == msgs[Len(msgs)]
         IN IF m.type = "result" THEN m.session_id
            ELSE LastResultSid(SubSeq(msgs, 1, Len(msgs) - 1))

\* the step in which execution e leaves the loop at the end of its stream
IsEndStep(e) == pc[e] = "iter" /\ pc'[e] = "artifact"

\* C25: at the end of a stream the registry entry of the task id becomes the session
\* id of the last result message of the stream and no other entry changes; when that
\* message carries no session id, when the stream had no result message, or when the
\* task id is absent, the registry stays exactly as it was.
C25_LastResultIsPersisted ==
    [][\A e \in Execs :
          IsEndStep(e) =>
              LET sid == LastResultSid(delivered[e])
              IN IF task[e] \in Tasks /\ sid # None
                 THEN sessions' = [sessions EXCEPT ![task[e]] = sid]
                 ELSE sessions' = sessions
      ]_vars

\* a stream of two result messages with different session ids has ended and the
\* registry holds the second
C25_Witness ==
    \E e \in Execs :
        /\ pc[e] = "artifact" /\ task[e] \in Tasks
        /\ delivered[e] = <<ResultMessage("s1"), ResultMessage("s2")>>
        /\ sessions[task[e]] = "s2"

(* ------------------------------- C26 ---------------------------------- *)
\* a status event whose final flag agrees with its state
FinalIffTerminal(ev) ==
    ev.kind = "status" =>
        /\ ev.state \in TerminalStates \cup {"working"}
        /\ ev.final <=> ev.state \in TerminalStates

\* C26: every status event that execute() or cancel() has enqueued is final exactly
\* when its state is completed, failed or canceled, so no working event is final; an
\* execution on non-empty input that got past its workspace step has a non-final
\* working status as its first event, and no engine is invoked before that event is
\* there.
C26_FinalIffTerminalState ==
    /\ \A e \in Execs : \A i \in 1..Len(events[e]) : FinalIffTerminal(events[e][i])
    /\ \A i \in 1..Len(cancels) :
          \A j \in 1..Len(cancels[i].events) : FinalIffTerminal(cancels[i].events[j])
    /\ \A e \in Execs :
          /\ Opened(e) => events[e] # <<>> /\ IsProgress(events[e][1])
          /\ opts[e].invoked => events[e] # <<>> /\ IsProgress(events[e][1])

\* status events of all four states have been enqueued, one of them by cancel()
C26_Witness ==
    /\ \E e, d \in Execs : LastState(e) = "completed" /\ LastState(d) = "failed"
    /\ \E i \in 1..Len(cancels) :
          cancels[i].events # <<>> /\ cancels[i].events[1].state = "canceled"

(* ------------------------------- C27 ---------------------------------- *)
\* the cancel() calls made for the task id of execution e
CancelsOf(e) == {i \in 1..Len(cancels) : cancels[i].task = task[e]}

\* C27: the flag of an execution is set only by a cancel() made after the execution
\* registered its handle (its opening notice was enqueued in the same step), and an
\* execution ends canceled only with its flag set; so as long as every cancel() of a
\* task id was made when no execution of it was in flight, before the first or after
\* the end of an earlier one, no execution of that task id has its flag set or ends
\* canceled.
C27_FreshFlagPerExecution ==
    \A e \in Execs :
        /\ cancel_flag[e] <=> signaledAt[e] >= 1
        /\ LastState(e) = "canceled" => cancel_flag[e]
        /\ (\A i \in CancelsOf(e) : cancels[i].phase # "running") =>
               ~cancel_flag[e] /\ LastState(e) # "canceled"

\* cancel(t) was called before any execution of t and again after the first one had
\* ended; the second execution of t completed
C27_Witness ==
    \E e, d \in Execs :
        /\ e < d /\ task[e] = task[d] /\ task[e] \in Tasks
        /\ pc[e] = "done" /\ LastState(d) = "completed"
        /\ Len(cancels) = 2 /\ CancelsOf(d) = {1, 2}
        /\ cancels[1].phase = "unknown" /\ cancels[2].phase = "ended"

(* ------------------------------- C28 ---------------------------------- *)
\* an execution that was called without a task id
Anonymous(e) == pc[e] # "idle" /\ task[e] = NoTask

\* C28: no entry of the cancellation map belongs to an execution without a task id, the
\* flag of such an execution is never set and it never ends canceled; as long as all
\* executions are without a task id the cancellation map and the registry are empty;
\* and every cancel() without a task id has enqueued exactly one terminal canceled
\* status with an empty task id, whether or not executions were in flight.
C28_AbsentTaskId ==
    /\ \A e \in Execs :
          Anonymous(e) =>
              /\ \A t \in Tasks : cancel_events[t] # e
              /\ ~cancel_flag[e] /\ signaledAt[e] = -1
              /\ LastState(e) # "canceled"
    /\ (\A e \in Execs : pc[e] # "idle" => Anonymous(e)) =>
          \A t \in Tasks : cancel_events[t] = 0 /\ sessions[t] = None
    /\ \A i \in 1..Len(cancels) :
          cancels[i].task = NoTask =>
              cancels[i].events = <<[kind |-> "status", taskId |-> "", state |-> "canceled",
                                     text |-> NoText, final |-> TRUE, lastChunk |-> FALSE]>>

\* an execution without a task id captured a session id and completed although
\* cancel() without a task id was called while it was in flight
C28_Witness ==
    \E e \in Execs :
        /\ Anonymous(e) /\ LastState(e) = "completed" /\ session_id[e] \in SessionIds
        /\ \E i \in 1..Len(cancels) : cancels[i].task = NoTask /\ cancels[i].phase = "running"

(* ------------------------------- C29 ---------------------------------- *)
\* execution e is consuming its engine stream, or about to
Consuming(e) == pc[e] \in {"build", "iter", "blocks"}

\* C29: the entry of the cancellation map for the task id of an execution that is
\* consuming its stream is the handle of that execution, also when another execution
\* of the task id overlaps it, so that cancel(t) sets its flag; and no cancel() has
\* enqueued a canceled status of its own while an execution of its task id was in
\* flight.
C29_RunningExecutionKeepsItsHandle ==
    /\ \A e \in Execs :
          (task[e] \in Tasks /\ Consuming(e)) => cancel_events[task[e]] = e
    /\ \A i \in 1..Len(cancels) :
          (cancels[i].task \in Tasks /\ cancels[i].phase = "running") =>
              cancels[i].events = <<>>

(* ------------------------------- C30 ---------------------------------- *)
\* C30: with max_retries <= 0 solve() sends no request and returns an empty response
\* with no incomplete reason, and the scorer then runs the tests on that response and
\* reports their count, with the incomplete mark unset.
C30_NoAttemptIsScoredByTests ==
    (solver.pc # "idle" /\ solver.max_retries <= 0) =>
        /\ solver.sent = 0 /\ solver.outcomes = <<>>
        /\ solver.pc \in {"solved", "scored"}
        /\ solver.response_text = <<>> /\ solver.incomplete_reason = <<>>
        /\ solver.pc = "scored" =>
              /\ solver.ran /\ ~solver.score.incomplete
              /\ solver.score.tests_total = solver.total
              /\ solver.score.value = IF solver.score.tests_passed = solver.total THEN 1 ELSE 0

\* a sample solved with a negative max_retries, scored as a failure of its two tests
C30_Witness ==
    /\ solver.pc = "scored" /\ solver.max_retries < 0 /\ solver.sent = 0
    /\ solver.ran /\ ~solver.score.incomplete
    /\ solver.total = 2 /\ solver.score.tests_passed = 0 /\ solver.score.value = 0

====
